---- MODULE Spec2Model ----
(***************************************************************************)
(* Model of dlExEf.py: the DayliteAPI exporter.  One orchestrator          *)
(* (process_all_contacts) dispatches one _process_contact task per id of   *)
(* the listing to a thread pool; each task fetches the contact, resolves   *)
(* company, extra fields, forms and notes (forms and notes each through a  *)
(* nested thread pool) and writes one text file under a global lock.       *)
(*                                                                         *)
(* Text is a sequence of tokens (a name is a sequence of characters); the  *)
(* empty sequence is Python's empty string, the only falsy text.           *)
(***************************************************************************)
EXTENDS Integers, Sequences, FiniteSets, TLC

\* ------------------------------------------------------------------ bounds
\* Longest listing of contacts drawn from FleetIds.
MaxListing == 2
\* Largest max_workers the constructor is given.
MaxWorkers == 2
\* name[:20]
TruncLen == 20

\* ------------------------------------------------------------ text helpers
NL == "\n"
SP == " "

Min(a, b) == IF a <= b THEN a ELSE b

Range(s) == {s[i] : i \in 1..Len(s)}

\* d[k] raises KeyError / d.get(k) falls back when the key is absent
Has(d, k) == k \in DOMAIN d

Get(d, k, default) == IF Has(d, k) THEN d[k] ELSE default

\* Python truthiness of a str
Truthy(text) == text # <<>>

\* sep.join(list)
RECURSIVE Join(_, _)
Join(list, sep) ==
    IF Len(list) = 0 THEN <<>>
    ELSE IF Len(list) = 1 THEN list[1]
    ELSE list[1] \o <<sep>> \o Join(Tail(list), sep)

\* s[:n]
Take(s, n) == SubSeq(s, 1, Min(n, Len(s)))

\* name.translate({ord('/'): '', ord('\\'): ''})
RemoveSep(name) == SelectSeq(name, LAMBDA ch : ch \notin {"/", "\\"})

RECURSIVE LStrip(_)
LStrip(s) == IF Len(s) > 0 /\ s[1] = SP THEN LStrip(Tail(s)) ELSE s

RECURSIVE RStrip(_)
RStrip(s) ==
    IF Len(s) > 0 /\ s[Len(s)] = SP THEN RStrip(SubSeq(s, 1, Len(s) - 1)) ELSE s

\* str.strip()
Strip(s) == LStrip(RStrip(s))

\* link.split('/')[-1]
LastSegment(link) == link[Len(link)]

\* --------------------------------------------------------- the remote API
\* The answers of the server, fixed for a run: a response is answered
\* ("ok", with a decoded body) or fails (404, timeout, 5xx, bad body).
Ok(body) == [status |-> "ok", body |-> body]
NotFound == [status |-> "notfound"]
TransientError == [status |-> "error"]
Malformed == [status |-> "malformed"]

\* Python's None.  Every caller of _make_request tests its result for truth
\* only, and None, {} and [] are all falsy: one empty value stands for them.
None == <<>>

A19 == [i \in 1..(TruncLen - 1) |-> "a"]

Digits == {"1", "2", "3", "4", "5", "6", "7", "8", "9"}

ContactLink(id) == <<"v1", "contacts", id>>
FormLink(id) == <<"v1", "forms", id>>
NoteLink(id) == <<"v1", "notes", id>>
CompanyLink(id) == <<"v1", "companies", id>>

FormDB ==
    [id \in {"1", "2", "3", "4", "5"} |->
        CASE id = "1" -> Ok([name |-> <<"Intake">>,
                             values |-> << [name |-> <<"Goal">>, value |-> <<"retire">>],
                                           [name |-> <<"Phone">>, value |-> <<"+", "1555">>],
                                           [name |-> <<"Blank">>] >>])
          [] id = "2" -> Ok([name |-> <<"Review">>,
                             values |-> << [name |-> <<"Score">>, value |-> <<"7">>] >>])
          [] id = "3" -> Ok([name |-> <<"Home ", "Geo Coordinates">>,
                             values |-> << [name |-> <<"Lat">>, value |-> <<"45">>] >>])
          [] id = "4" -> TransientError
          [] OTHER    -> Ok([values |-> << >>]) ]

NoteDB ==
    [id \in {"1", "2", "3", "4", "5"} |->
        CASE id = "1" -> Ok([title |-> <<"Call">>, details |-> <<"left message">>])
          [] id = "2" -> NotFound
          [] id = "5" -> Malformed
          [] id = "3" -> Ok([title |-> <<"Untitled body">>])
          [] OTHER    -> Ok([details |-> <<"met at office">>]) ]

CompanyDB ==
    [id \in {"1", "2", "3"} |->
        CASE id = "1" -> Ok([name |-> <<"Acme">>])
          [] id = "2" -> TransientError
          [] OTHER    -> Ok([category |-> <<"vendor">>]) ]

ContactDB ==
    [id \in Digits |->
        CASE id = "1" ->
               Ok([full_name |-> A19 \o <<SP, "c">>,
                   details |-> <<"prefers email">>,
                   keywords |-> << <<"vip">>, <<"client">> >>,
                   birthday |-> <<"1970-01-01">>,
                   addresses |-> << [city |-> <<"Ames">>, state |-> <<"IA">>] >>,
                   companies |-> << [company |-> CompanyLink("1"), role |-> <<"CEO">>] >>,
                   forms |-> << [form |-> FormLink("2")] >>,
                   notes |-> << [note |-> NoteLink("1")] >>])
          [] id = "2" -> NotFound
          [] id = "3" ->
               Ok([full_name |-> A19 \o <<SP, "d">>])
          [] id = "4" ->
               Ok([full_name |-> <<"a", "/", "b">>,
                   addresses |-> << >>,
                   companies |-> << >>,
                   forms |-> << >>,
                   notes |-> << [note |-> NoteLink("1")] >>])
          [] id = "5" ->
               Ok([full_name |-> <<"c", "\\", "d">>,
                   details |-> << >>,
                   keywords |-> << >>,
                   anniversary |-> <<"2001-06-02">>,
                   addresses |-> << [city |-> <<"Ames">>] >>,
                   companies |-> << [company |-> CompanyLink("2"), role |-> <<"CFO">>] >>,
                   extra_fields |-> << <<"extra1", [value |-> << >>]>>,
                                       <<"other", [display_name |-> <<"Pet">>]>> >>,
                   forms |-> << [form |-> FormLink("3")], [form |-> FormLink("4")] >>,
                   notes |-> << [note |-> NoteLink("5")] >>])
          [] id = "6" ->
               Ok([full_name |-> <<SP, "e", SP, "f", SP>>,
                   forms |-> << [form |-> FormLink("1")], [form |-> FormLink("2")],
                                [form |-> FormLink("3")] >>,
                   notes |-> << [note |-> NoteLink("3")], [note |-> NoteLink("4")] >>,
                   extra_fields |-> << <<"extra3", [value |-> <<"DCA">>,
                                                   display_name |-> <<"Dist">>]>>,
                                       <<"extra2", [value |-> <<"x">>,
                                                   display_name |-> <<"Second">>]>>,
                                       <<"custom", [value |-> <<"y">>]>>,
                                       <<"blank", [value |-> <<"z">>,
                                                  display_name |-> << >>]>>,
                                       <<"extra4", [value |-> << >>]>> >>])
          [] id = "7" ->
               Ok([details |-> <<"no name on file">>,
                   companies |-> << [company |-> CompanyLink("3"), role |-> <<"COO">>] >>,
                   forms |-> << [form |-> FormLink("5")], [form |-> FormLink("4")] >>,
                   notes |-> << >>])
          [] id = "8" ->
               Ok([companies |-> << [role |-> <<"Owner">>] >>,
                   extra_fields |-> << >>,
                   forms |-> << [form |-> FormLink("3")] >>,
                   notes |-> << [note |-> NoteLink("2")], [note |-> NoteLink("1")] >>])
          [] OTHER ->
               Ok([full_name |-> A19, addresses |-> << >>]) ]

\* The server's answer to GET base_url + link.
Server(link) ==
    LET id == LastSegment(link)
        db == CASE link[2] = "contacts"  -> ContactDB
                [] link[2] = "forms"     -> FormDB
                [] link[2] = "notes"     -> NoteDB
                [] OTHER                 -> CompanyDB
    IN  IF id \in DOMAIN db THEN db[id] ELSE NotFound

\* ------------------------------------------------------- _make_request
\* One GET; a RequestException (timeout, non-2xx, undecodable body) is
\* caught, logged and turned into None.
MakeRequest(link) ==
    IF Server(link).status = "ok" THEN Server(link).body ELSE None

\* logging.error calls of one _make_request
RequestErrors(link) == IF Server(link).status = "ok" THEN 0 ELSE 1

\* Mutant: the `if not data` tests are missing.
FalsyNever(data) == FALSE

\* `not data`: None, {} and [] are falsy
Falsy(data) == DOMAIN data = {}

\* ------------------------------------------------------------ extract_ids
\* Mutant: the group is `([^/]+)` instead of `(\d+)`.
IsDigitsAny(seg) == TRUE

IsDigits(seg) == seg \in Digits

\* re.search(r"/v1/contacts/(\d+)", burl): the positions where it matches
MatchAt(burl) ==
    {i \in 1..(Len(burl) - 2) :
        burl[i] = "v1" /\ burl[i + 1] = "contacts" /\ IsDigits(burl[i + 2])}

Matches(contact) == MatchAt(Get(contact, "self", <<>>)) # {}

MatchGroup(contact) ==
    LET burl == contact["self"]
        i == CHOOSE j \in MatchAt(burl) : \A m \in MatchAt(burl) : j <= m
    IN  burl[i + 2]

ExtractIds(response) ==
    IF Falsy(response) THEN <<>>
    ELSE LET kept == SelectSeq(response, Matches)
         IN  [i \in 1..Len(kept) |-> MatchGroup(kept[i])]

\* ------------------------------------------------ _process_contact, pure
Line(sec, text) == [sec |-> sec, text |-> text]

DefaultName(contact_id) ==
    <<"M", "i", "s", "s", "i", "n", "g", "N", "a", "m", "e", contact_id>>

ContactName(data, contact_id) ==
    RemoveSep(Get(data, "full_name", DefaultName(contact_id)))

FileExt == <<".txt">>

\* Mutant: the name is not cut (`name.strip()`).
FilenameUncut(name) == Strip(name) \o FileExt

Filename(name) == Strip(Take(name, TruncLen)) \o FileExt

\* Mutant: only a missing key falls back, an empty list gives no line.
AddressLineKeyOnly(data) ==
    IF ~Has(data, "addresses") THEN <<"No location found">>
    ELSE IF Len(data["addresses"]) = 0 THEN <<>>
    ELSE IF Has(data["addresses"][1], "city") /\ Has(data["addresses"][1], "state")
    THEN data["addresses"][1]["city"] \o <<", ">> \o data["addresses"][1]["state"]
    ELSE <<"No location found">>

AddressLine(data) ==
    IF /\ Has(data, "addresses")
       /\ Len(data["addresses"]) > 0
       /\ Has(data["addresses"][1], "city")
       /\ Has(data["addresses"][1], "state")
    THEN data["addresses"][1]["city"] \o <<", ">> \o data["addresses"][1]["state"]
    ELSE <<"No location found">>

\* contact_info after lines 90-102
HeadLines(data, name) ==
    << Line("name", name),
       Line("details", Get(data, "details", <<>>)),
       Line("keywords", <<"Keywords: ">> \o Join(Get(data, "keywords", <<>>), SP)),
       Line("dates", <<"Birthday: ">> \o Get(data, "birthday", <<>>)),
       Line("dates", <<"Anniversary: ">> \o Get(data, "anniversary", <<>>)),
       Line("address", AddressLine(data)) >>

\* data['companies'][0]['company'] is there: the company is fetched
HasCompanyLink(data) ==
    /\ Has(data, "companies")
    /\ Len(data["companies"]) > 0
    /\ Has(data["companies"][1], "company")

JobLine(company, company_data) ==
    IF Falsy(company_data)
    THEN IF Has(company, "role")
         THEN <<"Job: ">> \o company["role"] \o <<" at ">> \o <<"Unknown Company">>
         ELSE <<"No job information found">>
    ELSE IF Has(company_data, "name") /\ Has(company, "role")
         THEN <<"Job: ">> \o company["role"] \o <<" at ">> \o company_data["name"]
         ELSE <<"No job information found">>

\* self.extra_field_names, keys without the com.marketcircle.daylite/ prefix
ExtraFieldNames ==
    [key \in {"extra1", "extra2", "extra3", "extra4", "extra5", "extra6",
              "extra7", "extra8", "extra9", "extra10", "extra11"} |->
        CASE key = "extra1"  -> <<"Model #'s">>
          [] key = "extra2"  -> <<>>
          [] key = "extra3"  -> <<"DCA/Distrib">>
          [] key = "extra4"  -> <<"Client Level">>
          [] key = "extra5"  -> <<"Meeting Freq">>
          [] key = "extra6"  -> <<"Fee Rate">>
          [] key = "extra7"  -> <<"Spouse/Kids">>
          [] key = "extra8"  -> <<"Referred By">>
          [] key = "extra9"  -> <<"Expected Rev">>
          [] key = "extra10" -> <<"His FGA Risk">>
          [] OTHER           -> <<"Her FGA Risk">> ]

\* self.extra_field_names.get(key) or field.get('display_name', key)
DisplayName(key, field) ==
    IF Has(ExtraFieldNames, key) /\ Truthy(ExtraFieldNames[key])
    THEN ExtraFieldNames[key]
    ELSE Get(field, "display_name", <<key>>)

FieldHasValue(item) == Truthy(Get(item[2], "value", <<>>))

FieldLine(item) ==
    Line("extra", <<" - ">> \o DisplayName(item[1], item[2]) \o <<": ">> \o item[2]["value"])

\* extra_fields is the mapping's items in insertion order: <<key, field>>
ExtraLines(data) ==
    LET extra_fields == Get(data, "extra_fields", <<>>)
        kept == SelectSeq(extra_fields, FieldHasValue)
    IN  IF Len(extra_fields) > 0
        THEN <<Line("extra", <<NL, "Extra Fields:">>)>> \o
             [i \in 1..Len(kept) |-> FieldLine(kept[i])]
        ELSE <<>>

\* '\n'.join(filter(None, contact_info))
NonEmpty(line) == Truthy(line.text)

Kept(contact_info) == SelectSeq(contact_info, NonEmpty)

Document(contact_info) ==
    Join([i \in 1..Len(Kept(contact_info)) |-> Kept(contact_info)[i].text], NL)

\* ---------------------------------------------------- _process_single_form
ValueShown(value) == Has(value, "value") /\ "+" \notin Range(value["value"])

ValueLine(value) ==
    <<" - ">> \o Get(value, "name", <<"None">>) \o <<": ">> \o value["value"]

\* Mutant: the form's name is not examined.
ProcessSingleFormKeepsGeo(form_id) ==
    LET data == MakeRequest(FormLink(form_id))
        form_name == Get(data, "name", <<"Unknown Form Name">>)
        shown == SelectSeq(Get(data, "values", <<>>), ValueShown)
    IN  IF Falsy(data) THEN <<>>
        ELSE Join(<< <<NL, "Form Name: ">> \o form_name, <<NL>> >> \o
                  [i \in 1..Len(shown) |-> ValueLine(shown[i])], NL)

\* Mutant: a value containing '+' makes the whole form return nothing.
ProcessSingleFormSkipsPlus(form_id) ==
    LET data == MakeRequest(FormLink(form_id))
        form_name == Get(data, "name", <<"Unknown Form Name">>)
        values == Get(data, "values", <<>>)
        shown == SelectSeq(values, ValueShown)
    IN  IF Falsy(data) THEN <<>>
        ELSE IF /\ "Geo Coordinates" \notin Range(form_name)
                /\ \A i \in 1..Len(values) :
                      Has(values[i], "value") => "+" \notin Range(values[i]["value"])
        THEN Join(<< <<NL, "Form Name: ">> \o form_name, <<NL>> >> \o
                  [i \in 1..Len(shown) |-> ValueLine(shown[i])], NL)
        ELSE <<>>

\* None (the Geo Coordinates branch falls off the end) and "" are both
\* falsy and the caller tests truth only: both are the empty text here.
ProcessSingleForm(form_id) ==
    LET data == MakeRequest(FormLink(form_id))
        form_name == Get(data, "name", <<"Unknown Form Name">>)
        shown == SelectSeq(Get(data, "values", <<>>), ValueShown)
    IN  IF Falsy(data) THEN <<>>
        ELSE IF "Geo Coordinates" \notin Range(form_name)
        THEN Join(<< <<NL, "Form Name: ">> \o form_name, <<NL>> >> \o
                  [i \in 1..Len(shown) |-> ValueLine(shown[i])], NL)
        ELSE <<>>

\* ---------------------------------------------------- _process_single_note
ProcessSingleNote(note_id) ==
    LET data == MakeRequest(NoteLink(note_id))
    IN  IF Falsy(data) THEN <<>>
        ELSE <<NL>> \o Get(data, "title", <<"No title found">>) \o <<NL>> \o
             Get(data, "details", <<"No content found">>)

\* ------------------------------------------------------------------ state
VARIABLES
    response,     \* the server's answer to GET /v1/contacts
    max_workers,  \* self.max_workers
    orch_pc,      \* main and process_all_contacts: "listing", "collect",
                  \* "returned", "raised", "exited" (main has returned)
    task,         \* the futures of process_all_contacts, one _process_contact each
                  \* (requests: _make_request calls sent; errors: logging.error
                  \* calls about the contact; wrote: its file.write returned;
                  \* order: the inner futures as as_completed yields them;
                  \* finished: the inner futures as they completed; early:
                  \* the future was done before as_completed was called)
    collected,    \* the futures as_completed has yielded to process_all_contacts
    orch_errors,  \* logging.error calls of extract_ids' request
    files,        \* the file system: filename -> what the last write left
    lock          \* self._lock: 0 when free, else the task holding it

vars == <<response, max_workers, orch_pc, task, collected, orch_errors, files, lock>>

\* Contacts that are listed together, and the listing entries they make.
FleetIds == {"1", "2", "3", "4", "9"}

FleetEntries ==
    {[self |-> ContactLink(id)] : id \in FleetIds} \cup {[self |-> <<"v1", "contacts", "x">>]}

Listings ==
    UNION {[1..n -> FleetEntries] : n \in 0..MaxListing} \cup
    {<<[self |-> ContactLink(id)]>> : id \in Digits} \cup
    {<<[name |-> <<"no link">>], [self |-> ContactLink("3")],
       [self |-> ContactLink("9")], [self |-> ContactLink("2")]>>,
     <<[self |-> ContactLink("6")], [self |-> ContactLink("5")]>>}

\* A future of process_all_contacts and the frame of its _process_contact.
NewTask(contact_id) ==
    [pc |-> "queued", cid |-> contact_id, data |-> None, name |-> <<>>,
     filename |-> <<>>, info |-> <<>>, pool |-> <<>>, entered |-> FALSE,
     order |-> <<>>, finished |-> <<>>, outcome |-> "none", exc |-> "none", errors |-> 0,
     requests |-> 0, wrote |-> FALSE]

Tasks == DOMAIN task

Running == {k \in Tasks : task[k].pc \notin {"queued", "done"}}

\* The futures of an inner executor, all submitted at once (lines 153-156).
NewPool(ids) ==
    [i \in 1..Len(ids) |->
        [id |-> ids[i], st |-> "queued", result |-> <<>>, early |-> FALSE]]

\* ThreadPoolExecutor(max_workers=n) raises ValueError unless n > 0
PoolSize(ids) == Min(Len(ids), max_workers)

\* An exception leaves _process_contact: the future holds it.
Raised(t, exc) == [t EXCEPT !.pc = "done", !.outcome = "raised", !.exc = exc]

\* Mutant: the loop over as_completed breaks at the first falsy result.
AggregatedStopAtEmpty(t) ==
    LET results == [j \in 1..Len(t.order) |-> t.pool[t.order[j]].result]
        falsy == {j \in 1..Len(results) : ~Truthy(results[j])}
        stop == IF falsy = {} THEN Len(results)
                ELSE (CHOOSE j \in falsy : \A m \in falsy : j <= m) - 1
    IN  Join(SubSeq(results, 1, stop), NL)

\* Mutant: `forms_data = future.result()` kept from the first future only.
AggregatedFirstOnly(t) ==
    IF Len(t.order) = 0 THEN <<>> ELSE t.pool[t.order[1]].result

\* forms_data / notes_data: the truthy results in the order as_completed
\* yielded their futures, joined by newline.
Aggregated(t) ==
    Join(SelectSeq([j \in 1..Len(t.order) |-> t.pool[t.order[j]].result], Truthy), NL)

\* Line 143: the frame reaches `with self._lock`.
ToLock(t) ==
    [t EXCEPT !.pc = "lock_wait", !.pool = <<>>, !.order = <<>>,
              !.finished = <<>>, !.entered = FALSE]

\* Lines 136-141.
BeginNotes(t) ==
    IF \/ ~Has(t.data, "notes")
       \/ \E i \in 1..Len(t.data["notes"]) : ~Has(t.data["notes"][i], "note")
    THEN ToLock([t EXCEPT !.info = Append(@, Line("notes", <<"No notes found">>))])
    ELSE LET note_ids == [i \in 1..Len(t.data["notes"]) |->
                             LastSegment(t.data["notes"][i]["note"])]
         IN  IF PoolSize(note_ids) <= 0 THEN Raised(t, "ValueError")
             ELSE [t EXCEPT !.pc = "notes", !.pool = NewPool(note_ids),
                            !.order = <<>>, !.finished = <<>>, !.entered = FALSE]

\* Lines 188-191 and 139: the notes pool is joined.
FinishNotes(t) == ToLock([t EXCEPT !.info = Append(@, Line("notes", Aggregated(t)))])

\* Lines 157-160 and 131: the forms pool is joined; notes follow.
FinishForms(t) == BeginNotes([t EXCEPT !.info = Append(@, Line("forms", Aggregated(t)))])

\* Lines 128-133.
BeginForms(t) ==
    IF \/ ~Has(t.data, "forms")
       \/ \E i \in 1..Len(t.data["forms"]) : ~Has(t.data["forms"][i], "form")
    THEN BeginNotes([t EXCEPT !.info = Append(@, Line("forms", <<"No forms found">>))])
    ELSE LET form_ids == [i \in 1..Len(t.data["forms"]) |->
                             LastSegment(t.data["forms"][i]["form"])]
         IN  IF PoolSize(form_ids) <= 0 THEN Raised(t, "ValueError")
             ELSE [t EXCEPT !.pc = "forms", !.pool = NewPool(form_ids),
                            !.order = <<>>, !.finished = <<>>, !.entered = FALSE]

\* Lines 109-133: the job line is known; extra fields, then forms.
AfterCompany(t, job) ==
    BeginForms([t EXCEPT !.info = Append(@, Line("job", job)) \o ExtraLines(t.data)])

\* ------------------------------------------------------------------- Init
Init ==
    /\ response \in {TransientError, Malformed} \cup {Ok(l) : l \in Listings}
    /\ max_workers \in 1..MaxWorkers
    /\ orch_pc = "listing"
    /\ task = <<>>
    /\ collected = {}
    /\ orch_errors = 0
    /\ files = <<>>
    /\ lock = 0

\* ---------------------------------------------------- process_all_contacts
\* Lines 205-209: the listing answers; one future per extracted id.
Dispatch ==
    /\ orch_pc = "listing"
    /\ LET ids == ExtractIds(IF response.status = "ok" THEN response.body ELSE None)
       IN  task' = [k \in 1..Len(ids) |-> NewTask(ids[k])]
    /\ orch_errors' = orch_errors + (IF response.status = "ok" THEN 0 ELSE 1)
    /\ orch_pc' = "collect"
    /\ UNCHANGED <<response, max_workers, collected, files, lock>>

\* A worker thread of the outer pool takes the oldest queued future and
\* sends the contact request (lines 81-82).
StartTask(k) ==
    /\ task[k].pc = "queued"
    /\ \A j \in Tasks : task[j].pc = "queued" => k <= j
    /\ Cardinality(Running) < max_workers
    /\ task' = [task EXCEPT ![k].pc = "fetch", ![k].requests = @ + 1]
    /\ UNCHANGED <<response, max_workers, orch_pc, collected, orch_errors, files, lock>>

\* Mutant: a failed contact request is sent a second time.
ContactResponseRetries(k) ==
    /\ task[k].pc = "fetch"
    /\ LET t == task[k]
           link == ContactLink(t.cid)
           data == MakeRequest(link)
           name == ContactName(data, t.cid)
           got == [t EXCEPT !.data = data, !.name = name,
                            !.filename = Filename(name),
                            !.info = HeadLines(data, name)]
       IN  task' = [task EXCEPT ![k] =
               IF Falsy(data) /\ t.requests < 2
               THEN [t EXCEPT !.requests = @ + 1, !.errors = @ + RequestErrors(link)]
               ELSE IF Falsy(data)
               THEN [t EXCEPT !.pc = "done", !.outcome = "skipped",
                              !.errors = @ + RequestErrors(link)]
               ELSE IF HasCompanyLink(data)
               THEN [got EXCEPT !.pc = "company", !.requests = @ + 1]
               ELSE AfterCompany(got, <<"No job information found">>)]
    /\ UNCHANGED <<response, max_workers, orch_pc, collected, orch_errors, files, lock>>

\* Lines 82-102: the contact request returns.  (The frame after lines
\* 86-102 is bound to `got` as a value, so that the later stages do not
\* evaluate it again at each use.)
ContactResponse(k) ==
    /\ task[k].pc = "fetch"
    /\ LET t == task[k]
           link == ContactLink(t.cid)
           data == MakeRequest(link)
           name == ContactName(data, t.cid)
       IN  \E got \in {[t EXCEPT !.data = data, !.name = name,
                                  !.filename = Filename(name),
                                  !.info = HeadLines(data, name)]} :
             task' = [task EXCEPT ![k] =
                 IF Falsy(data)
                 THEN [t EXCEPT !.pc = "done", !.outcome = "skipped",
                                !.errors = @ + RequestErrors(link)]
                 ELSE IF HasCompanyLink(data)
                 THEN [got EXCEPT !.pc = "company", !.requests = @ + 1]
                 ELSE AfterCompany(got, <<"No job information found">>)]
    /\ UNCHANGED <<response, max_workers, orch_pc, collected, orch_errors, files, lock>>

\* Lines 107-111: the company request returns.
CompanyResponse(k) ==
    /\ task[k].pc = "company"
    /\ LET t == task[k]
           company == t.data["companies"][1]
           link == company["company"]
       IN  task' = [task EXCEPT ![k] =
               AfterCompany([t EXCEPT !.errors = @ + RequestErrors(link)],
                            JobLine(company, MakeRequest(link)))]
    /\ UNCHANGED <<response, max_workers, orch_pc, collected, orch_errors, files, lock>>

\* ------------------------------------- _process_forms / _process_notes
InPool(k) == task[k].pc \in {"forms", "notes"}

SubRunning(t) == {i \in DOMAIN t.pool : t.pool[i].st = "running"}

\* _process_single_form / _process_single_note of the pool the frame waits on
SubResult(t, i) ==
    IF t.pc = "forms" THEN ProcessSingleForm(t.pool[i].id)
    ELSE ProcessSingleNote(t.pool[i].id)

SubLink(t, i) ==
    IF t.pc = "forms" THEN FormLink(t.pool[i].id) ELSE NoteLink(t.pool[i].id)

\* Lines 157 / 188: the frame calls as_completed, which takes the futures
\* already finished as a set and waits for the others.
EnterAsCompleted(k) ==
    /\ InPool(k)
    /\ ~task[k].entered
    /\ task' = [task EXCEPT ![k].entered = TRUE]
    /\ UNCHANGED <<response, max_workers, orch_pc, collected, orch_errors, files, lock>>

\* The requests a contact has in flight: its own record or its company
\* (lines 82, 107), or the sub-fetches its pool is running (lines 164, 195).
InFlightOf(t) ==
    IF t.pc \in {"fetch", "company"} THEN 1
    ELSE IF t.pc \in {"forms", "notes"} THEN Cardinality(SubRunning(t))
    ELSE 0

RECURSIVE InFlightUpTo(_)
InFlightUpTo(n) == IF n = 0 THEN 0 ELSE InFlightUpTo(n - 1) + InFlightOf(task[n])

\* The requests in flight across all contacts.
InFlight == InFlightUpTo(Len(task))

\* Mutant: the pools share one budget of max_workers requests in flight.
StartSubGlobalCap(k, i) ==
    /\ InPool(k)
    /\ i \in DOMAIN task[k].pool
    /\ task[k].pool[i].st = "queued"
    /\ \A j \in DOMAIN task[k].pool : task[k].pool[j].st = "queued" => i <= j
    /\ Cardinality(SubRunning(task[k])) < Min(Len(task[k].pool), max_workers)
    /\ InFlight < max_workers
    /\ task' = [task EXCEPT ![k].pool[i].st = "running", ![k].requests = @ + 1]
    /\ UNCHANGED <<response, max_workers, orch_pc, collected, orch_errors, files, lock>>

\* Mutant: the inner executor starts a thread for every submitted future.
StartSubUnbounded(k, i) ==
    /\ InPool(k)
    /\ i \in DOMAIN task[k].pool
    /\ task[k].pool[i].st = "queued"
    /\ \A j \in DOMAIN task[k].pool : task[k].pool[j].st = "queued" => i <= j
    /\ task' = [task EXCEPT ![k].pool[i].st = "running", ![k].requests = @ + 1]
    /\ UNCHANGED <<response, max_workers, orch_pc, collected, orch_errors, files, lock>>

\* A worker thread of the inner pool takes the oldest queued sub-fetch and
\* sends its request (lines 164 / 195).
StartSub(k, i) ==
    /\ InPool(k)
    /\ i \in DOMAIN task[k].pool
    /\ task[k].pool[i].st = "queued"
    /\ \A j \in DOMAIN task[k].pool : task[k].pool[j].st = "queued" => i <= j
    /\ Cardinality(SubRunning(task[k])) < Min(Len(task[k].pool), max_workers)
    /\ task' = [task EXCEPT ![k].pool[i].st = "running", ![k].requests = @ + 1]
    /\ UNCHANGED <<response, max_workers, orch_pc, collected, orch_errors, files, lock>>

\* Mutant: as_completed yields every future in the order of a set.
YieldAnywhere(t) == 0..Len(t.order)

\* Where as_completed yields future i: after the futures that finished
\* before it while it waits (entered), in the order of a set among those
\* that had finished before it was called.
YieldPositions(t) == IF t.entered THEN {Len(t.order)} ELSE 0..Len(t.order)

\* The sub-fetch's request returns and its future is done.
CompleteSub(k, i) ==
    /\ InPool(k)
    /\ i \in DOMAIN task[k].pool
    /\ task[k].pool[i].st = "running"
    /\ \E p \in YieldPositions(task[k]) :
         LET t == task[k]
         IN  task' = [task EXCEPT ![k] =
                 [t EXCEPT !.pool[i].st = "done",
                           !.pool[i].result = SubResult(t, i),
                           !.pool[i].early = ~t.entered,
                           !.finished = Append(@, i),
                           !.errors = @ + RequestErrors(SubLink(t, i)),
                           !.order = SubSeq(@, 1, p) \o <<i>> \o SubSeq(@, p + 1, Len(@))]]
    /\ UNCHANGED <<response, max_workers, orch_pc, collected, orch_errors, files, lock>>

\* as_completed is exhausted and the executor's with-block is left.
JoinPool(k) ==
    /\ InPool(k)
    /\ task[k].entered
    /\ \A i \in DOMAIN task[k].pool : task[k].pool[i].st = "done"
    /\ task' = [task EXCEPT ![k] =
           IF task[k].pc = "forms" THEN FinishForms(task[k]) ELSE FinishNotes(task[k])]
    /\ UNCHANGED <<response, max_workers, orch_pc, collected, orch_errors, files, lock>>

\* ------------------------------------------- the write (lines 143-147)
AcquireLock(k) ==
    /\ task[k].pc = "lock_wait"
    /\ lock = 0
    /\ lock' = k
    /\ task' = [task EXCEPT ![k].pc = "write"]
    /\ UNCHANGED <<response, max_workers, orch_pc, collected, orch_errors, files>>

\* open(filename, 'w') and file.write succeed: the file holds the document
WriteFile(k) ==
    /\ task[k].pc = "write"
    /\ files' = (task[k].filename :>
                    [lines |-> Kept(task[k].info),
                     text |-> Document(task[k].info),
                     by |-> k]) @@ files
    /\ task' = [task EXCEPT ![k].pc = "log", ![k].wrote = TRUE]
    /\ UNCHANGED <<response, max_workers, orch_pc, collected, orch_errors, lock>>

\* Mutant: acquire() without try/finally, a failing open keeps the lock.
WriteFailsKeepsLock(k) ==
    /\ task[k].pc = "write"
    /\ task' = [task EXCEPT ![k] = Raised(task[k], "OSError")]
    /\ UNCHANGED <<response, max_workers, orch_pc, collected, orch_errors, files, lock>>

\* open raises OSError: the with-statement releases the lock
WriteFails(k) ==
    /\ task[k].pc = "write"
    /\ lock' = 0
    /\ task' = [task EXCEPT ![k] = Raised(task[k], "OSError")]
    /\ UNCHANGED <<response, max_workers, orch_pc, collected, orch_errors, files>>

\* Line 147, then the with-statement releases the lock and the frame returns
\* Mutant: the frame returns with the lock still held.
ReleaseKeepsLock(k) ==
    /\ task[k].pc = "log"
    /\ task' = [task EXCEPT ![k].pc = "done", ![k].outcome = "ok"]
    /\ UNCHANGED <<response, max_workers, orch_pc, collected, orch_errors, files, lock>>

Release(k) ==
    /\ task[k].pc = "log"
    /\ lock' = 0
    /\ task' = [task EXCEPT ![k].pc = "done", ![k].outcome = "ok"]
    /\ UNCHANGED <<response, max_workers, orch_pc, collected, orch_errors, files>>

\* ----------------------------------- process_all_contacts, lines 210-214
\* Mutant: the handler names OSError only (`except OSError`).
IsExceptionOSErrorOnly(exc) == exc = "OSError"

\* `except Exception`: the exceptions a frame raises here are Exceptions
IsException(exc) == exc \in {"ValueError", "OSError"}

\* as_completed yields a finished future; future.result() re-raises
CollectResult(k) ==
    /\ orch_pc = "collect"
    /\ k \in Tasks \ collected
    /\ task[k].pc = "done"
    /\ collected' = collected \cup {k}
    /\ IF task[k].outcome = "raised"
       THEN IF IsException(task[k].exc)
            THEN /\ task' = [task EXCEPT ![k].errors = @ + 1]
                 /\ orch_pc' = orch_pc
            ELSE /\ orch_pc' = "raised"
                 /\ task' = task
       ELSE UNCHANGED <<task, orch_pc>>
    /\ UNCHANGED <<response, max_workers, orch_errors, files, lock>>

\* Mutant: the loop is left at the first failed future.
ExhaustedOrFailed ==
    \/ collected = Tasks
    \/ \E k \in collected : task[k].outcome = "raised"

\* as_completed is exhausted once every future has been yielded
Exhausted == collected = Tasks

\* The with-block is left (shutdown waits for the workers) and
\* process_all_contacts returns
Return ==
    /\ orch_pc = "collect"
    /\ Exhausted
    /\ orch_pc' = "returned"
    /\ UNCHANGED <<response, max_workers, task, collected, orch_errors, files, lock>>

\* Lines 225-230: main logs the completion and returns; the interpreter
\* exits.
MainReturns ==
    /\ orch_pc = "returned"
    /\ orch_pc' = "exited"
    /\ UNCHANGED <<response, max_workers, task, collected, orch_errors, files, lock>>

\* The exit status of the process: 0 once main has returned, 1 when an
\* exception left process_all_contacts and main (uncaught, traceback).
ExitStatus ==
    CASE orch_pc = "exited" -> 0
      [] orch_pc = "raised" -> 1
      [] OTHER              -> -1

Next ==
    \/ Dispatch
    \/ Return
    \/ MainReturns
    \/ \E k \in Tasks : StartTask(k)
    \/ \E k \in Tasks : ContactResponse(k)
    \/ \E k \in Tasks : CompanyResponse(k)
    \/ \E k \in Tasks : EnterAsCompleted(k)
    \/ \E k \in Tasks : \E i \in DOMAIN task[k].pool : StartSub(k, i)
    \/ \E k \in Tasks : \E i \in DOMAIN task[k].pool : CompleteSub(k, i)
    \/ \E k \in Tasks : JoinPool(k)
    \/ \E k \in Tasks : AcquireLock(k)
    \/ \E k \in Tasks : WriteFile(k)
    \/ \E k \in Tasks : WriteFails(k)
    \/ \E k \in Tasks : Release(k)
    \/ \E k \in Tasks : CollectResult(k)

Spec == Init /\ [][Next]_vars

\* Every request the server has received is answered and a thread that can
\* run gets to run (the main thread, the workers of the outer pool, the
\* workers of the inner pools): the program does not stop while one of its
\* steps can be taken.  No single step is owed more than that; a write may
\* end with the file written or with an OSError.
Fairness == WF_vars(Next)

FairSpec == Spec /\ Fairness

\* ================================================================ claims
Secs(lines) == {lines[i].sec : i \in 1..Len(lines)}

\* What the server holds for a contact, and whether its record alone makes
\* _process_contact fail: the detail fetch fails, or an inner executor is
\* built over an empty id list.
Record(contact_id) == Server(ContactLink(contact_id))

FailsByData(contact_id) ==
    \/ Record(contact_id).status # "ok"
    \/ /\ Has(Record(contact_id).body, "forms")
       /\ Len(Record(contact_id).body["forms"]) = 0
    \/ /\ Has(Record(contact_id).body, "notes")
       /\ Len(Record(contact_id).body["notes"]) = 0

InSection(k) == task[k].pc \in {"write", "log"}

\* C1: an exception raised while one contact is processed never leaves
\* process_all_contacts, and every contact whose own processing does not
\* fail has its file written with its own complete document: right after
\* its write the file holds the newline-join of the non-empty entries of
\* its own contact_info, which has an entry for every stage and starts with
\* its own name.
C1_FailureContained ==
    /\ orch_pc # "raised"
    /\ \A k \in Tasks :
         task[k].pc = "log" =>
           /\ Has(files, task[k].filename)
           /\ files[task[k].filename].by = k
           /\ files[task[k].filename].text = Document(task[k].info)
           /\ {"name", "keywords", "dates", "address", "job", "forms", "notes"}
                 \subseteq Secs(task[k].info)
           /\ task[k].info[1].text = ContactName(Record(task[k].cid).body, task[k].cid)
    /\ orch_pc = "returned" =>
         \A k \in Tasks :
           (~FailsByData(task[k].cid) /\ task[k].exc # "OSError") => task[k].wrote

\* C1 witness: the run is over, one contact raised and another was written.
C1_Witness ==
    /\ orch_pc = "returned"
    /\ \E k \in Tasks : task[k].outcome = "raised" /\ task[k].exc = "ValueError"
    /\ \E k \in Tasks : task[k].outcome = "ok" /\ task[k].wrote

\* C2: process_all_contacts has returned only if every dispatched task is
\* done, whether it succeeded, was skipped or raised.
C2_ReturnsAfterAll ==
    orch_pc = "returned" => \A k \in Tasks : task[k].pc = "done"

\* C2 witness: a failed future has already been handled while another
\* task is still running, and process_all_contacts has not returned.
C2_Witness ==
    /\ orch_pc = "collect"
    /\ \E k \in collected : task[k].outcome = "raised"
    /\ \E k \in Tasks : task[k].pc \notin {"queued", "done"}

\* C3: at most one task is inside the open/write section, the lock is held
\* exactly while a task is inside it, and its holder is that task: a task
\* that has left the section, by return or by a failed write, holds nothing.
C3_WriteMutex ==
    /\ Cardinality({k \in Tasks : InSection(k)}) <= 1
    /\ lock # 0 => lock \in Tasks /\ InSection(lock)
    /\ \A k \in Tasks : InSection(k) => lock = k

\* C3 witness: one task's write has failed and another task is inside the
\* section.
C3_Witness ==
    /\ \E k \in Tasks : task[k].exc = "OSError"
    /\ \E k \in Tasks : InSection(k)

\* The place of each section in the document.
Rank(sec) ==
    CASE sec = "name" -> 1 [] sec = "details" -> 2 [] sec = "keywords" -> 3
      [] sec = "dates" -> 4 [] sec = "address" -> 5 [] sec = "job" -> 6
      [] sec = "extra" -> 7 [] sec = "forms" -> 8 [] OTHER -> 9

FormResults(data) ==
    {ProcessSingleForm(LastSegment(data["forms"][i]["form"])) : i \in 1..Len(data["forms"])}

NoteResults(data) ==
    {ProcessSingleNote(LastSegment(data["notes"][i]["note"])) : i \in 1..Len(data["notes"])}

\* The sections a contact's record and the answers to its sub-fetches call
\* for, whatever the order in which those answers arrive.
ExpectedSections(contact_id) ==
    LET data == Record(contact_id).body
    IN  {"keywords", "dates", "address", "job"}
        \cup (IF Truthy(ContactName(data, contact_id)) THEN {"name"} ELSE {})
        \cup (IF Truthy(Get(data, "details", <<>>)) THEN {"details"} ELSE {})
        \cup (IF Len(Get(data, "extra_fields", <<>>)) > 0 THEN {"extra"} ELSE {})
        \cup (IF ~Has(data, "forms") \/ FormResults(data) \ {<<>>} # {}
              THEN {"forms"} ELSE {})
        \cup (IF ~Has(data, "notes") \/ NoteResults(data) \ {<<>>} # {}
              THEN {"notes"} ELSE {})

\* The lines outside forms and notes, which no sub-fetch order touches.
StaticLines(contact_id) ==
    LET data == Record(contact_id).body
        company == data["companies"][1]
        job == IF HasCompanyLink(data)
               THEN JobLine(company, MakeRequest(company["company"]))
               ELSE <<"No job information found">>
    IN  Kept(HeadLines(data, ContactName(data, contact_id))
             \o <<Line("job", job)>> \o ExtraLines(data))

Outside(line) == line.sec \notin {"forms", "notes"}

\* C4: in every written file the sections come in the order name, details,
\* keywords, dates, address, job, extra fields, forms, notes; the sections
\* present are those the contact's record and sub-fetch answers call for,
\* and the lines outside forms and notes are fixed by the record, for every
\* completion order of the form and note fetches.
C4_SectionOrder ==
    \A fn \in DOMAIN files :
        LET lines == files[fn].lines
            cid == task[files[fn].by].cid
        IN  /\ \A i, j \in 1..Len(lines) :
                  i < j => Rank(lines[i].sec) <= Rank(lines[j].sec)
            /\ Secs(lines) = ExpectedSections(cid)
            /\ SelectSeq(lines, Outside) = StaticLines(cid)

\* C4 witness: contact 6 is written with the text of its second form
\* before the text of its first (the fetches completed out of order).
C4_Witness ==
    \E fn \in DOMAIN files :
        /\ task[files[fn].by].cid = "6"
        /\ \E i \in 1..Len(files[fn].lines) :
             /\ files[fn].lines[i].sec = "forms"
             /\ files[fn].lines[i].text =
                    Join(<<ProcessSingleForm("2"), ProcessSingleForm("1")>>, NL)

\* C5: a section whose data is missing or empty contributes no line to the
\* written document: no details, keywords, birthday or anniversary line
\* without a value, no extra-fields header without a field that has a
\* value, no forms or notes line when the aggregation is empty.
C5_EmptySectionsOmitted ==
    \A fn \in DOMAIN files :
        LET lines == files[fn].lines
            data == Record(task[files[fn].by].cid).body
            texts == {lines[i].text : i \in 1..Len(lines)}
        IN  /\ ~Truthy(Get(data, "details", <<>>)) => "details" \notin Secs(lines)
            /\ ~Truthy(Join(Get(data, "keywords", <<>>), SP)) => "keywords" \notin Secs(lines)
            /\ ~Truthy(Get(data, "birthday", <<>>)) => <<"Birthday: ">> \notin texts
            /\ ~Truthy(Get(data, "anniversary", <<>>)) => <<"Anniversary: ">> \notin texts
            /\ SelectSeq(Get(data, "extra_fields", <<>>), FieldHasValue) = <<>>
                  => "extra" \notin Secs(lines)
            /\ (Has(data, "forms") /\ FormResults(data) \subseteq {<<>>})
                  => "forms" \notin Secs(lines)
            /\ (Has(data, "notes") /\ NoteResults(data) \subseteq {<<>>})
                  => "notes" \notin Secs(lines)

Written == {k \in Tasks : task[k].wrote}

\* The display name of a contact cut to 20 characters, as the server's
\* record gives it, and the file name it makes once stripped.
TruncName(contact_id) ==
    Take(RemoveSep(Get(Record(contact_id).body, "full_name", DefaultName(contact_id))),
         TruncLen)

FileNameOf(contact_id) == Strip(TruncName(contact_id)) \o <<".txt">>

WellFormed(contact) == contact \in {[self |-> ContactLink(id)] : id \in Digits}

\* C7 as stated: tasks of different contacts never write the same file.
C7_Original ==
    \A i, j \in Written :
        task[i].cid # task[j].cid => task[i].filename # task[j].filename

\* C7 amended: there is exactly one task per well-formed listing entry, in
\* listing order (none for an entry whose self-link does not match, none
\* when the listing fetch fails), and two tasks write the same file only if
\* their contacts' names, separators removed, agree on the first 20
\* characters up to leading and trailing whitespace.
C7_OneTaskPerEntry ==
    /\ orch_pc # "listing" =>
         IF response.status = "ok"
         THEN LET entries == SelectSeq(response.body, WellFormed)
              IN  /\ Len(task) = Len(entries)
                  /\ \A k \in Tasks : ContactLink(task[k].cid) = entries[k]["self"]
         ELSE task = <<>>
    /\ \A i, j \in Written :
         task[i].filename = task[j].filename
            => Strip(TruncName(task[i].cid)) = Strip(TruncName(task[j].cid))

\* C7 witness: a listing entry without a matching self-link was dropped and
\* two tasks of different contacts wrote the same file.
C7_Witness ==
    /\ orch_pc = "returned"
    /\ response.status = "ok"
    /\ Len(task) < Len(response.body)
    /\ \E i, j \in Written :
         task[i].cid # task[j].cid /\ task[i].filename = task[j].filename

DetailOk(k) == Record(task[k].cid).status = "ok"

\* What C8 says of a contact whose detail fetch fails: it is skipped, after
\* one request and one logged error, without a file, and nothing is raised.
SkippedCleanly ==
    /\ orch_pc # "raised"
    /\ \A k \in Tasks :
         /\ task[k].outcome = "skipped" => ~DetailOk(k)
         /\ (task[k].pc = "done" /\ ~DetailOk(k)) =>
              /\ task[k].outcome = "skipped"
              /\ ~task[k].wrote
              /\ task[k].requests = 1
              /\ task[k].errors = 1

\* A finished batch with a skipped contact whose other contacts resolved.
OthersResolved ==
    /\ orch_pc = "returned"
    /\ \E k \in Tasks : task[k].outcome = "skipped"
    /\ \A k \in Tasks : task[k].outcome \in {"ok", "skipped"}

\* C8 as stated: the number of files equals the number of contacts whose
\* detail fetch succeeded.
C8_Original ==
    /\ SkippedCleanly
    /\ OthersResolved =>
         Cardinality(DOMAIN files) = Cardinality({k \in Tasks : DetailOk(k)})

\* C8 amended: the number of files equals the number of distinct file names
\* of the contacts whose detail fetch succeeded.
C8_SkippedContact ==
    /\ SkippedCleanly
    /\ OthersResolved =>
         Cardinality(DOMAIN files)
            = Cardinality({FileNameOf(task[k].cid) : k \in {j \in Tasks : DetailOk(j)}})

\* C8 witness: two contacts listed, one skipped and one written: one file.
C8_Witness ==
    /\ OthersResolved
    /\ Len(task) = 2
    /\ \E k \in Tasks : task[k].outcome = "ok"
    /\ Cardinality(DOMAIN files) = 1

\* C9: a record without a forms (notes) key gets the fallback line; a
\* record whose forms (notes) list is present and empty gets no forms
\* (notes) line and its file is still written.
C9_EmptyCollection ==
    \A k \in Tasks :
        (DetailOk(k) /\ task[k].pc = "done" /\ task[k].exc # "OSError") =>
            LET data == Record(task[k].cid).body
            IN  /\ ~Has(data, "forms") =>
                      Line("forms", <<"No forms found">>) \in Range(task[k].info)
                /\ ~Has(data, "notes") =>
                      Line("notes", <<"No notes found">>) \in Range(task[k].info)
                /\ (Has(data, "forms") /\ Len(data["forms"]) = 0) =>
                      task[k].wrote /\ "forms" \notin Secs(Kept(task[k].info))
                /\ (Has(data, "notes") /\ Len(data["notes"]) = 0) =>
                      task[k].wrote /\ "notes" \notin Secs(Kept(task[k].info))

\* The joins of the non-empty results, each once, in every order.
Joins(results) ==
    LET kept == {i \in 1..Len(results) : Truthy(results[i])}
        n == Cardinality(kept)
        orders == {f \in [1..n -> kept] : \A a, b \in 1..n : a # b => f[a] # f[b]}
    IN  {Join([j \in 1..n |-> results[f[j]]], NL) : f \in orders}

FormTexts(data) ==
    Joins([i \in 1..Len(data["forms"]) |->
              ProcessSingleForm(LastSegment(data["forms"][i]["form"]))])

NoteTexts(data) ==
    Joins([i \in 1..Len(data["notes"]) |->
              ProcessSingleNote(LastSegment(data["notes"][i]["note"]))])

\* C10: the text an aggregation hands back is the newline-join of exactly
\* the non-empty results of its sub-fetches, each once, in some order; a
\* failed or empty sub-fetch adds nothing and does not make the frame fail.
C10_Aggregation ==
    \A k \in Tasks :
        /\ \A i \in 1..Len(task[k].info) :
             LET line == task[k].info[i]
             IN  /\ (line.sec = "forms" /\ Has(task[k].data, "forms"))
                       => line.text \in FormTexts(task[k].data)
                 /\ (line.sec = "notes" /\ Has(task[k].data, "notes"))
                       => line.text \in NoteTexts(task[k].data)
        /\ (task[k].pc = "done" /\ ~FailsByData(task[k].cid) /\ task[k].exc # "OSError")
              => task[k].outcome = "ok"

\* C10 witness: contact 8 is written; its note 2 was not found and its
\* notes text is the text of note 1 alone.
C10_Witness ==
    \E k \in Written :
        /\ task[k].cid = "8"
        /\ task[k].errors = 1
        /\ Line("notes", ProcessSingleNote("1")) \in Range(task[k].info)

\* ---------------------------------------------------------------- C11
Pos(seq, x) == CHOOSE j \in 1..Len(seq) : seq[j] = x

\* The truthy results of a pool joined in the order the fetches completed.
ByCompletion(t) ==
    Join(SelectSeq([j \in 1..Len(t.finished) |-> t.pool[t.finished[j]].result],
                   Truthy), NL)

EarlyKept(t) == {i \in DOMAIN t.pool : t.pool[i].early /\ Truthy(t.pool[i].result)}

\* C11 as stated: the aggregated text lists the non-empty results in the
\* order their fetches completed.
C11_Original ==
    \A k \in Tasks : InPool(k) => Aggregated(task[k]) = ByCompletion(task[k])

\* C11: a result whose fetch completed after the aggregation loop had
\* called as_completed comes after every result whose fetch completed
\* before it, whatever the positions in the id list; the fetches that
\* completed before that call come first, in any order among themselves,
\* so the text is in completion order when at most one non-empty result
\* was ready at the call.
C11_CompletionOrder ==
    \A k \in Tasks :
        InPool(k) =>
            LET t == task[k]
            IN  /\ \A a, b \in 1..Len(t.order) :
                       (a < b /\ ~t.pool[t.order[b]].early)
                           => Pos(t.finished, t.order[a]) < Pos(t.finished, t.order[b])
                /\ Cardinality(EarlyKept(t)) <= 1
                       => Aggregated(t) = ByCompletion(t)

\* C11 witness: forms 1 and 2 of contact 6 were submitted in that order,
\* form 2 completed first and form 1 after as_completed was called; the
\* text starts with form 2.
C11_Witness ==
    \E k \in Tasks :
        /\ task[k].pc = "forms"
        /\ task[k].cid = "6"
        /\ task[k].entered
        /\ task[k].finished = <<2, 1>>
        /\ ~task[k].pool[1].early
        /\ Aggregated(task[k]) =
               Join(<<ProcessSingleForm("2"), ProcessSingleForm("1")>>, NL)

\* ---------------------------------------------------------------- C12
Occurs(sub, text) ==
    \E j \in 0..(Len(text) - Len(sub)) : SubSeq(text, j + 1, j + Len(sub)) = sub

FormRecord(form_id) == Server(FormLink(form_id))

HasPlus(value) == Has(value, "value") /\ "+" \in Range(value["value"])

\* The forms with a value containing '+' whose name is not a Geo
\* Coordinates name.
PlusForms ==
    {id \in DOMAIN FormDB :
        /\ FormRecord(id).status = "ok"
        /\ "Geo Coordinates" \notin Range(Get(FormRecord(id).body, "name", <<>>))
        /\ \E i \in 1..Len(Get(FormRecord(id).body, "values", <<>>)) :
              HasPlus(FormRecord(id).body["values"][i])}

DoneForms(t) ==
    IF t.pc = "forms" THEN {i \in DOMAIN t.pool : t.pool[i].st = "done"} ELSE {}

\* C12 as stated: a form with a value containing '+' contributes nothing.
C12_Original ==
    \A k \in Tasks : \A i \in DoneForms(task[k]) :
        task[k].pool[i].id \in PlusForms => ~Truthy(task[k].pool[i].result)

\* C12: a value whose stringified content contains '+' is left out of
\* the form's text and nothing else is: the form still contributes its
\* name line and the line of each of its other values that has content.
C12_PlusValueSkipped ==
    \A k \in Tasks : \A i \in DoneForms(task[k]) :
        task[k].pool[i].id \in PlusForms =>
            LET body == FormRecord(task[k].pool[i].id).body
                text == task[k].pool[i].result
            IN  /\ "+" \notin Range(text)
                /\ Occurs(<<"Form Name: ">> \o Get(body, "name", <<"Unknown Form Name">>), text)
                /\ \A j \in 1..Len(body["values"]) :
                      LET value == body["values"][j]
                      IN  /\ HasPlus(value) => ~Occurs(Get(value, "name", <<"None">>), text)
                          /\ (Has(value, "value") /\ ~HasPlus(value))
                                => Occurs(ValueLine(value), text)

\* C12 witness: contact 6 is written; form 1 has the value "+1555" and
\* the document holds its name and its Goal line.
C12_Witness ==
    \E k \in Written :
        /\ task[k].cid = "6"
        /\ \E n \in 1..Len(task[k].info) :
              /\ task[k].info[n].sec = "forms"
              /\ Occurs(<<"Form Name: ", "Intake">>, task[k].info[n].text)
              /\ Occurs(<<"Goal", ": ", "retire">>, task[k].info[n].text)
              /\ ~Occurs(<<"Phone">>, task[k].info[n].text)

\* ---------------------------------------------------------------- C13
\* The forms whose name contains "Geo Coordinates".
GeoForms ==
    {id \in DOMAIN FormDB :
        /\ FormRecord(id).status = "ok"
        /\ "Geo Coordinates" \in Range(Get(FormRecord(id).body, "name", <<>>))}

NotGeo(form_id) == form_id \notin GeoForms

\* The ids of a contact's forms, in the order of its record, and the
\* texts the forms other than the Geo Coordinates ones call for.
FormIds(data) ==
    [i \in 1..Len(data["forms"]) |-> LastSegment(data["forms"][i]["form"])]

OtherFormTexts(data) ==
    LET ids == SelectSeq(FormIds(data), NotGeo)
    IN  Joins([i \in 1..Len(ids) |-> ProcessSingleForm(ids[i])])

\* C13: a form whose name contains "Geo Coordinates" returns no text,
\* values or not, and the forms text of its contact is the text the other
\* forms of the contact give without it.
C13_GeoFormSkipped ==
    \A k \in Tasks :
        /\ \A i \in DoneForms(task[k]) :
              task[k].pool[i].id \in GeoForms => task[k].pool[i].result = <<>>
        /\ \A n \in 1..Len(task[k].info) :
              (task[k].info[n].sec = "forms" /\ Has(task[k].data, "forms"))
                  => /\ task[k].info[n].text \in OtherFormTexts(task[k].data)
                     /\ "Geo Coordinates" \notin Range(task[k].info[n].text)

\* C13 witness: the three forms of contact 6 are done; form 3, a Geo
\* Coordinates form with a value, was yielded between forms 1 and 2 and the
\* text is the text of forms 1 and 2.
C13_Witness ==
    \E k \in Tasks :
        /\ task[k].pc = "forms"
        /\ task[k].cid = "6"
        /\ task[k].order = <<1, 3, 2>>
        /\ task[k].pool[3].id \in GeoForms
        /\ \E j \in 1..Len(FormRecord("3").body["values"]) :
              ValueShown(FormRecord("3").body["values"][j])
        /\ Aggregated(task[k]) =
               Join(<<ProcessSingleForm("1"), ProcessSingleForm("2")>>, NL)

\* ---------------------------------------------------------------- C14
NoLocation == Line("address", <<"No location found">>)

NoAddress(data) == ~Has(data, "addresses") \/ Len(data["addresses"]) = 0

\* C14: a contact whose record has no addresses key, or an empty addresses
\* list, gets the line "No location found"; the missing address raises
\* nothing, the contact goes on through its later stages, and the file it
\* writes holds the line.
C14_NoLocation ==
    \A k \in Tasks :
        (task[k].outcome # "skipped" /\ task[k].pc \notin {"queued", "fetch"}
            /\ NoAddress(task[k].data)) =>
            /\ NoLocation \in Range(task[k].info)
            /\ Cardinality({n \in 1..Len(task[k].info) :
                               task[k].info[n].sec = "address"}) = 1
            /\ task[k].outcome = "raised" =>
                  \/ task[k].exc = "OSError"
                  \/ task[k].exc = "ValueError" /\ FailsByData(task[k].cid)
            /\ (task[k].pc = "done" /\ task[k].outcome = "ok") => task[k].wrote
            /\ task[k].pc = "log" =>
                  /\ files[task[k].filename].by = k
                  /\ NoLocation \in Range(files[task[k].filename].lines)

\* C14 witness: contact 3 has no addresses key and contact 9 an empty
\* addresses list; both were written, contact 9 just now, with the line.
C14_Witness ==
    \E k, m \in Written :
        /\ task[k].cid = "3" /\ ~Has(task[k].data, "addresses")
        /\ task[m].cid = "9" /\ task[m].data["addresses"] = <<>>
        /\ NoLocation \in Range(task[k].info)
        /\ task[m].pc = "log"
        /\ NoLocation \in Range(files[task[m].filename].lines)

\* ---------------------------------------------------------------- C15
FirstNonEmpty(texts) ==
    LET full == SelectSeq(texts, Truthy)
    IN  IF Len(full) > 0 THEN full[1] ELSE <<>>

\* The display name the resolution order gives: override table, declared
\* display name, raw key, the first non-empty one.
ResolvedName(key, field) ==
    FirstNonEmpty(<< IF Has(ExtraFieldNames, key) THEN ExtraFieldNames[key] ELSE <<>>,
                     Get(field, "display_name", <<>>),
                     <<key>> >>)

ResolvedLines(data) ==
    LET extra_fields == Get(data, "extra_fields", <<>>)
        kept == SelectSeq(extra_fields, FieldHasValue)
    IN  [i \in 1..Len(kept) |->
            Line("extra", <<" - ">> \o ResolvedName(kept[i][1], kept[i][2])
                              \o <<": ">> \o kept[i][2]["value"])]

IsEntry(line) == line.sec = "extra" /\ line.text # <<NL, "Extra Fields:">>

\* C15: the extra-field lines of a contact are one line per entry with a
\* non-empty value, in the insertion order of the mapping, each under the
\* first non-empty of the override for its key, its declared display name
\* and its raw key.
C15_DisplayNames ==
    \A k \in Tasks :
        (task[k].outcome # "skipped" /\ task[k].pc \notin {"queued", "fetch"})
            => SelectSeq(task[k].info, IsEntry) = ResolvedLines(task[k].data)

\* ---------------------------------------------------------------- C16
\* The resources of a contact record _process_contact asks for, its own
\* record first.
Resources(contact_id) ==
    LET data == MakeRequest(ContactLink(contact_id))
    IN  <<ContactLink(contact_id)>>
        \o (IF ~Falsy(data) /\ HasCompanyLink(data)
            THEN <<data["companies"][1]["company"]>> ELSE <<>>)
        \o (IF ~Falsy(data) /\ Has(data, "forms")
            THEN [i \in 1..Len(data["forms"]) |-> data["forms"][i]["form"]] ELSE <<>>)
        \o (IF ~Falsy(data) /\ Has(data, "notes")
            THEN [i \in 1..Len(data["notes"]) |-> data["notes"][i]["note"]] ELSE <<>>)

Failing(links) == SelectSeq(links, LAMBDA link : Server(link).status # "ok")

\* C16: _make_request sends its request once: a contact never has more
\* requests sent than it has resources, a contact that completes has sent
\* exactly one per resource and logged one error per resource that failed
\* (not found, connection error, malformed body), and a failed request
\* raises nothing: a failed detail request skips the contact after a single
\* request, a failed sub-request leaves the contact to complete, and the
\* failed listing request gives an empty batch.
C16_SingleAttempt ==
    /\ \A k \in Tasks :
          LET t == task[k]
          IN  /\ t.requests <= Len(Resources(t.cid))
              /\ t.outcome = "skipped" =>
                    /\ Server(ContactLink(t.cid)).status # "ok"
                    /\ t.requests = 1 /\ t.errors = 1
              /\ (t.pc # "queued" /\ Server(ContactLink(t.cid)).status # "ok")
                    => t.pc \in {"fetch", "done"} /\ t.outcome # "raised"
              /\ t.outcome = "ok" =>
                    /\ t.requests = Len(Resources(t.cid))
                    /\ t.errors = Len(Failing(Resources(t.cid)))
              /\ t.outcome = "raised" =>
                    \/ t.exc = "OSError"
                    \/ t.exc = "ValueError" /\ FailsByData(t.cid)
    /\ (orch_pc # "listing" /\ response.status # "ok") =>
          /\ Tasks = {}
          /\ orch_errors = 1
          /\ orch_pc # "raised"

\* C16 witness: contact 5 completed; its company request met a connection
\* error, its form 4 a connection error and its note 5 a malformed body,
\* and it sent five requests for its five resources.
C16_Witness ==
    \E k \in Tasks :
        /\ task[k].cid = "5"
        /\ task[k].outcome = "ok"
        /\ task[k].wrote
        /\ task[k].requests = 5
        /\ task[k].errors = 3
        /\ Server(NoteLink("5")) = Malformed

\* ---------------------------------------------------------------- C17
Ended == orch_pc \in {"exited", "raised"}

\* The listing request failed, or the listing held no contact.
ListingFailed == response.status # "ok" \/ Tasks = {}

\* C17: a run whose listing request fails or whose listing yields no
\* contact ends in a failure status, and a run with contacts ends in the
\* normal status whatever happened to its contacts.
C17_ExitStatus ==
    Ended => IF ListingFailed THEN ExitStatus # 0 ELSE ExitStatus = 0

\* ---------------------------------------------------------------- C18
Queued == {k \in Tasks : task[k].pc = "queued"}

SubQueued(t) == {i \in DOMAIN t.pool : t.pool[i].st = "queued"}

\* C18: at most max_workers contact tasks run at a time, and in the pool
\* of one aggregation at most min(len(ids), max_workers) sub-fetches run
\* at a time.
C18_PoolBounds ==
    /\ Cardinality(Running) <= max_workers
    /\ \A k \in Tasks :
          InPool(k) =>
              /\ Cardinality(SubRunning(task[k])) <= Len(task[k].pool)
              /\ Cardinality(SubRunning(task[k])) <= max_workers

\* C18 witness: both pools are full with work waiting: max_workers
\* contacts run and another is queued, and one of the running contacts
\* has max_workers forms in flight and another form queued.
C18_Witness ==
    /\ Cardinality(Running) = max_workers
    /\ Queued # {}
    /\ \E k \in Running :
          /\ task[k].pc = "forms"
          /\ Cardinality(SubRunning(task[k])) = max_workers
          /\ SubQueued(task[k]) # {}

\* ---------------------------------------------------------------- C19
\* The inner pool of contact k has work waiting and a worker to spare.
CanStartSub(k) ==
    /\ InPool(k)
    /\ SubQueued(task[k]) # {}
    /\ Cardinality(SubRunning(task[k])) < Min(Len(task[k].pool), max_workers)

LockHeldForWrite == lock # 0 => (lock \in Tasks /\ task[lock].pc \in {"write", "log"})

\* C20: when every request is answered and every thread that can run gets
\* to run, process_all_contacts returns, for every listing and every
\* max_workers; on the way the write lock is held only by a contact that is
\* in its write.
C20_Terminates ==
    /\ <>(orch_pc = "returned")
    /\ [](LockHeldForWrite)

\* C20 witness: process_all_contacts has returned after contacts 6 and 5,
\* each with a forms pool and a notes pool, were both written.
C20_Witness ==
    /\ orch_pc = "returned"
    /\ Len(task) = 2
    /\ task[1].cid = "6" /\ task[1].wrote /\ task[1].requests = 6
    /\ task[2].cid = "5" /\ task[2].wrote /\ task[2].requests = 5

====
